---------------------------- MODULE Spec2Model ----------------------------
(***************************************************************************)
(* The cupoch.camera Python module (src/python/cupoch_pybind/camera/       *)
(* camera.cpp): the classes PinholeCameraIntrinsic and                     *)
(* PinholeCameraParameters and the enum PinholeCameraIntrinsicParameters   *)
(* as a Python program sees them.                                          *)
(*                                                                         *)
(* The state is a Python session: two names that may hold a                *)
(* PinholeCameraIntrinsic, two names that may hold a                       *)
(* PinholeCameraParameters, and the C++ objects behind them.  A name holds *)
(* a reference to an object, so that "two names, one object" is a state    *)
(* the model can tell from "two names, two equal objects".                 *)
(*                                                                         *)
(* Reals are fixed-point integers, in units of 1/10000 (Real).             *)
(***************************************************************************)
EXTENDS Integers, Sequences, FiniteSets, TLC

VARIABLES
    refI,    \* Python name -> the PinholeCameraIntrinsic object it refers to
    heapI,   \* PinholeCameraIntrinsic object -> its fields
    refP,    \* Python name -> the PinholeCameraParameters object it refers to
    heapP,   \* PinholeCameraParameters object -> its fields
    calls    \* the calls made so far, in order

vars == <<refI, heapI, refP, heapP, calls>>

(***************************************************************************)
(* Bounds.                                                                 *)
(***************************************************************************)
\* The longest sequence of calls explored.
MaxOps == 3
\* The positive image extent used as an argument and in direct writes.
MaxW == 2

NameI == {"a", "b"}
NameP == {"p", "q"}
CellI == {1, 2}
CellP == {1, 2}

(***************************************************************************)
(* Values.                                                                 *)
(***************************************************************************)
\* A double with integer part i and four decimals f: 319.5 is Real(319, 5000).
Real(i, f) == i * 10000 + f

Idx3 == 0 .. 2
Idx4 == 0 .. 3

\* Eigen::Matrix3::Identity() and Eigen::Matrix4::Identity().
Identity3 == [r \in Idx3 |-> [c \in Idx3 |-> IF r = c THEN Real(1, 0) ELSE 0]]
Identity4 == [r \in Idx4 |-> [c \in Idx4 |-> IF r = c THEN Real(1, 0) ELSE 0]]

\* The canonical matrix [[fx, 0, cx], [0, fy, cy], [0, 0, 1]].
CanonicalMatrix(fx, fy, cx, cy) ==
    [r \in Idx3 |-> [c \in Idx3 |->
        IF r = 0 /\ c = 0 THEN fx
        ELSE IF r = 1 /\ c = 1 THEN fy
        ELSE IF r = 0 /\ c = 2 THEN cx
        ELSE IF r = 1 /\ c = 2 THEN cy
        ELSE IF r = 2 /\ c = 2 THEN Real(1, 0)
        ELSE 0]]

(***************************************************************************)
(* camera::PinholeCameraIntrinsic, the native class the module binds.      *)
(***************************************************************************)
\* A default constructor that marks the extents unset with -1.
DefaultIntrinsicWrongExtent ==
    [width_ |-> -1, height_ |-> -1, intrinsic_matrix_ |-> Identity3]

\* PinholeCameraIntrinsic(): the invalid sentinel.
DefaultIntrinsic ==
    [width_ |-> 0, height_ |-> 0, intrinsic_matrix_ |-> Identity3]

\* PinholeCameraIntrinsic(width, height, fx, fy, cx, cy).
PinholeCameraIntrinsic6(w, h, fx, fy, cx, cy) ==
    [width_ |-> w, height_ |-> h,
     intrinsic_matrix_ |-> CanonicalMatrix(fx, fy, cx, cy)]

\* SetIntrinsics taking cx, cy as an offset from the current principal
\* point.
SetIntrinsicsShiftsPrincipalPoint(c, w, h, fx, fy, cx, cy) ==
    [c EXCEPT !.width_ = w, !.height_ = h,
              !.intrinsic_matrix_ =
                  CanonicalMatrix(fx, fy, c.intrinsic_matrix_[0][2] + cx,
                                  c.intrinsic_matrix_[1][2] + cy)]

\* c.SetIntrinsics(width, height, fx, fy, cx, cy), in place.
SetIntrinsics(c, w, h, fx, fy, cx, cy) ==
    [c EXCEPT !.width_ = w, !.height_ = h,
              !.intrinsic_matrix_ =
                  [Identity3 EXCEPT
                      ![0] = [Identity3[0] EXCEPT ![0] = fx, ![2] = cx],
                      ![1] = [Identity3[1] EXCEPT ![1] = fy, ![2] = cy]]]

GetFocalLength(c) == <<c.intrinsic_matrix_[0][0], c.intrinsic_matrix_[1][1]>>
GetPrincipalPoint(c) == <<c.intrinsic_matrix_[0][2], c.intrinsic_matrix_[1][2]>>
GetSkew(c) == c.intrinsic_matrix_[0][1]
IsValid(c) == c.width_ > 0 /\ c.height_ > 0

\* The members of camera::PinholeCameraIntrinsicParameters.
PinholeCameraIntrinsicParameters ==
    {"PrimeSenseDefault", "Kinect2DepthCameraDefault", "Kinect2ColorCameraDefault"}

\* The preset catalog: the six frozen values of each member.
PresetTable ==
    [PrimeSenseDefault |->
        [w |-> 640, h |-> 480, fx |-> Real(525, 0), fy |-> Real(525, 0),
         cx |-> Real(319, 5000), cy |-> Real(239, 5000)],
     Kinect2DepthCameraDefault |->
        [w |-> 512, h |-> 424, fx |-> Real(254, 8780), fy |-> Real(205, 3950),
         cx |-> Real(365, 4560), cy |-> Real(365, 4560)],
     Kinect2ColorCameraDefault |->
        [w |-> 1920, h |-> 1080, fx |-> Real(1059, 9413), fy |-> Real(1059, 9413),
         cx |-> Real(959, 5000), cy |-> Real(539, 5000)]]

\* PinholeCameraIntrinsic(param): the factory constants of the member,
\* copied into a fresh instance.
PinholeCameraIntrinsicOfParam(param) ==
    [width_ |-> PresetTable[param].w, height_ |-> PresetTable[param].h,
     intrinsic_matrix_ |->
         [r \in Idx3 |-> [c \in Idx3 |->
             IF r = c THEN
                 (IF r = 0 THEN PresetTable[param].fx
                  ELSE IF r = 1 THEN PresetTable[param].fy
                  ELSE Real(1, 0))
             ELSE IF c = 2 THEN
                 (IF r = 0 THEN PresetTable[param].cx ELSE PresetTable[param].cy)
             ELSE 0]]]

\* camera::PinholeCameraParameters(): default intrinsic, identity extrinsic.
DefaultParameters ==
    [intrinsic_ |-> DefaultIntrinsic, extrinsic_ |-> Identity4]


(***************************************************************************)
(* The bindings of cupoch.camera.PinholeCameraIntrinsic.                   *)
(***************************************************************************)
\* The 6-argument init with cx and cy handed over in the wrong order.
Init6SwapsPrincipalPoint(w, h, fx, fy, cx, cy) ==
    PinholeCameraIntrinsic6(w, h, fx, fy, cy, cx)

\* py::init([](int w, int h, double fx, double fy, double cx, double cy)).
Init6(w, h, fx, fy, cx, cy) == PinholeCameraIntrinsic6(w, h, fx, fy, cx, cy)

\* The enum exported with two Python names bound to one member.
EnumValueDuplicated(pyname) ==
    IF pyname = "Kinect2DepthCameraDefault" THEN "Kinect2ColorCameraDefault"
    ELSE pyname

\* py::enum_<PinholeCameraIntrinsicParameters>: the member a Python name
\* of the enum stands for.
EnumValue(pyname) ==
    CASE pyname = "PrimeSenseDefault" -> "PrimeSenseDefault"
      [] pyname = "Kinect2DepthCameraDefault" -> "Kinect2DepthCameraDefault"
      [] pyname = "Kinect2ColorCameraDefault" -> "Kinect2ColorCameraDefault"

\* py::init([](PinholeCameraIntrinsicParameters param)).
InitParam(param) == PinholeCameraIntrinsicOfParam(param)

\* The width property reading the other extent.
WidthReadsHeight(c) == c.height_

\* def_readwrite("width"), ("height"): the getters.
Width(c) == c.width_
Height(c) == c.height_

\* The matrix handed to Python with rows and columns exchanged.
IntrinsicMatrixTransposed(c) ==
    [r \in Idx3 |-> [k \in Idx3 |-> c.intrinsic_matrix_[k][r]]]

\* def_readwrite("intrinsic_matrix"): the getter.
IntrinsicMatrix(c) == c.intrinsic_matrix_

\* The matrix setter that stores only the upper triangle of what it is given.
SetIntrinsicMatrixKeepsShape(c, m) ==
    [c EXCEPT !.intrinsic_matrix_ =
        [r \in Idx3 |-> [k \in Idx3 |-> IF k >= r THEN m[r][k] ELSE 0]]]

\* def_readwrite("width"), ("height"), ("intrinsic_matrix"): the setters.
SetWidth(c, w) == [c EXCEPT !.width_ = w]
SetHeight(c, h) == [c EXCEPT !.height_ = h]
SetIntrinsicMatrix(c, m) == [c EXCEPT !.intrinsic_matrix_ = m]

\* std::to_string(int): the decimal digits, after a minus sign if negative,
\* as a sequence of characters.
Digit(d) == <<<<"0", "1", "2", "3", "4", "5", "6", "7", "8", "9">>[d + 1]>>

RECURSIVE Digits(_)
Digits(n) == IF n < 10 THEN Digit(n) ELSE Digits(n \div 10) \o Digit(n % 10)

to_string(n) == IF n < 0 THEN <<"-">> \o Digits(-n) ELSE Digits(n)

\* __repr__: the pieces the lambda concatenates.
Repr(c) ==
    <<"camera::PinholeCameraIntrinsic with width = ", to_string(c.width_),
      " and height = ", to_string(c.height_),
      ".\nAccess intrinsics with intrinsic_matrix.">>

(***************************************************************************)
(* The bindings of cupoch.camera.PinholeCameraParameters.                  *)
(***************************************************************************)
Intrinsic(c) == c.intrinsic_
Extrinsic(c) == c.extrinsic_
SetIntrinsic(c, i) == [c EXCEPT !.intrinsic_ = i]
SetExtrinsic(c, e) == [c EXCEPT !.extrinsic_ = e]

ReprParameters(c) ==
    <<"camera::PinholeCameraParameters class.\n",
      "Access its data via intrinsic and extrinsic.">>

(***************************************************************************)
(* The arguments the calls are made with.                                  *)
(***************************************************************************)
Args(w, h, fx, fy, cx, cy) ==
    [w |-> w, h |-> h, fx |-> fx, fy |-> fy, cx |-> cx, cy |-> cy]

\* Six-argument tuples: a valid camera, and extents and reals that are
\* negative or zero.
ArgTuples ==
    {Args(640, 480, Real(525, 0), Real(525, 0), Real(319, 5000), Real(239, 5000)),
     Args(-1, MaxW, Real(1, 0), Real(2, 0), Real(3, 0), Real(4, 0)),
     Args(MaxW, 0, 0, -Real(1, 5000), -Real(2, 0), Real(0, 5000)),
     Args(0, -1, Real(1, 0), Real(2, 0), Real(3, 0), Real(4, 0))}

\* Extents written directly to width and height.
ExtentInputs == {-1, 0, MaxW}

\* A matrix that is not of the canonical form: nonzero skew, a nonzero
\* entry below the diagonal and a bottom row other than (0, 0, 1).
MalformedMatrix ==
    [r \in Idx3 |-> [c \in Idx3 |->
        IF r = 2 THEN (IF c = 0 THEN Real(0, 5000) ELSE Real(2, 0))
        ELSE IF r = 1 /\ c = 0 THEN Real(1, 0)
        ELSE Real(3, 0)]]

\* Matrices written directly to intrinsic_matrix: the current one m with
\* its skew entry set to 0.25, and the malformed one.
MatrixInputs(m) ==
    {[m EXCEPT ![0] = [m[0] EXCEPT ![1] = Real(0, 2500)]], MalformedMatrix}

\* Matrices written directly to extrinsic: a translation.
ExtrinsicInputs ==
    {[Identity4 EXCEPT ![0] = [Identity4[0] EXCEPT ![3] = Real(1, 5000)]]}

(***************************************************************************)
(* The Python session.                                                     *)
(***************************************************************************)
Init ==
    /\ refI = <<>>
    /\ heapI = <<>>
    /\ refP = <<>>
    /\ heapP = <<>>
    /\ calls = <<>>

BoundI(n) == n \in DOMAIN refI
BoundP(p) == p \in DOMAIN refP

\* The object a name refers to.
ObjI(n) == heapI[refI[n]]
ObjP(p) == heapP[refP[p]]

\* The objects that stay referenced when name n is bound again, and the
\* object a new instance bound to n gets.
Others(ref, n) == {ref[m] : m \in DOMAIN ref \ {n}}
Fresh(cells, ref, n) ==
    CHOOSE c \in cells \ Others(ref, n) :
        \A d \in cells \ Others(ref, n) : c <= d

\* n = <a new instance with the fields obj>: the name refers to the new
\* object, and the object it referred to is released if no name holds it.
Rebind(ref, n, c) ==
    [m \in DOMAIN ref \cup {n} |-> IF m = n THEN c ELSE ref[m]]
Store(heap, ref, n, c, obj) ==
    [d \in Others(ref, n) \cup {c} |-> IF d = c THEN obj ELSE heap[d]]

NewI(n, obj) ==
    /\ refI' = Rebind(refI, n, Fresh(CellI, refI, n))
    /\ heapI' = Store(heapI, refI, n, Fresh(CellI, refI, n), obj)

NewP(p, obj) ==
    /\ refP' = Rebind(refP, p, Fresh(CellP, refP, p))
    /\ heapP' = Store(heapP, refP, p, Fresh(CellP, refP, p), obj)

\* A call, as the session records it: the method, the name it is made on
\* and its arguments (the six-argument tuple, an extent, a matrix, or the
\* name of the source object or of the preset).
NoArgs == Args(0, 0, 0, 0, 0, 0)
Call(op, on, args, value, matrix, name) ==
    [op |-> op, on |-> on, args |-> args, value |-> value, matrix |-> matrix,
     name |-> name]

Step(call) == Len(calls) < MaxOps /\ calls' = Append(calls, call)

\* n = PinholeCameraIntrinsic()
PyDefault(n) ==
    /\ Step(Call("PinholeCameraIntrinsic()", n, NoArgs, 0, Identity3, ""))
    /\ NewI(n, DefaultIntrinsic)
    /\ UNCHANGED <<refP, heapP>>

\* The 6-argument init refusing extents that are not positive.
PyInit6Validates(n, t) ==
    /\ t.w > 0 /\ t.h > 0
    /\ Step(Call("PinholeCameraIntrinsic(6)", n, t, 0, Identity3, ""))
    /\ NewI(n, Init6(t.w, t.h, t.fx, t.fy, t.cx, t.cy))
    /\ UNCHANGED <<refP, heapP>>

\* n = PinholeCameraIntrinsic(w, h, fx, fy, cx, cy)
PyInit6(n, t) ==
    /\ Step(Call("PinholeCameraIntrinsic(6)", n, t, 0, Identity3, ""))
    /\ NewI(n, Init6(t.w, t.h, t.fx, t.fy, t.cx, t.cy))
    /\ UNCHANGED <<refP, heapP>>

\* n = PinholeCameraIntrinsic(PinholeCameraIntrinsicParameters.<pyname>)
PyInitParam(n, pyname) ==
    /\ Step(Call("PinholeCameraIntrinsic(param)", n, NoArgs, 0, Identity3, pyname))
    /\ NewI(n, InitParam(EnumValue(pyname)))
    /\ UNCHANGED <<refP, heapP>>

\* A copy that hands back the object it was given.
PyCopyAliases(dst, src) ==
    /\ Step(Call("copy", dst, NoArgs, 0, Identity3, src))
    /\ BoundI(src)
    /\ refI' = Rebind(refI, dst, refI[src])
    /\ heapI' = [d \in Others(refI, dst) \cup {refI[src]} |-> heapI[d]]
    /\ UNCHANGED <<refP, heapP>>

\* dst = PinholeCameraIntrinsic(src), copy.copy(src), copy.deepcopy(src)
PyCopy(dst, src) ==
    /\ Step(Call("copy", dst, NoArgs, 0, Identity3, src))
    /\ BoundI(src)
    /\ NewI(dst, ObjI(src))
    /\ UNCHANGED <<refP, heapP>>

\* n.set_intrinsics(w, h, fx, fy, cx, cy)
PySetIntrinsics(n, t) ==
    /\ Step(Call("set_intrinsics", n, t, 0, Identity3, ""))
    /\ BoundI(n)
    /\ heapI' = [heapI EXCEPT ![refI[n]] =
                     SetIntrinsics(@, t.w, t.h, t.fx, t.fy, t.cx, t.cy)]
    /\ UNCHANGED <<refI, refP, heapP>>

\* n.width = w
PyWriteWidth(n, w) ==
    /\ Step(Call("width", n, NoArgs, w, Identity3, ""))
    /\ BoundI(n)
    /\ heapI' = [heapI EXCEPT ![refI[n]] = SetWidth(@, w)]
    /\ UNCHANGED <<refI, refP, heapP>>

\* n.height = h
PyWriteHeight(n, h) ==
    /\ Step(Call("height", n, NoArgs, h, Identity3, ""))
    /\ BoundI(n)
    /\ heapI' = [heapI EXCEPT ![refI[n]] = SetHeight(@, h)]
    /\ UNCHANGED <<refI, refP, heapP>>

\* n.intrinsic_matrix = m
PyWriteIntrinsicMatrix(n, m) ==
    /\ Step(Call("intrinsic_matrix", n, NoArgs, 0, m, ""))
    /\ BoundI(n)
    /\ heapI' = [heapI EXCEPT ![refI[n]] = SetIntrinsicMatrix(@, m)]
    /\ UNCHANGED <<refI, refP, heapP>>

\* p = PinholeCameraParameters()
PyDefaultParameters(p) ==
    /\ Step(Call("PinholeCameraParameters()", p, NoArgs, 0, Identity3, ""))
    /\ NewP(p, DefaultParameters)
    /\ UNCHANGED <<refI, heapI>>

\* dst = PinholeCameraParameters(src), copy.copy(src), copy.deepcopy(src)
PyCopyParameters(dst, src) ==
    /\ Step(Call("copy", dst, NoArgs, 0, Identity3, src))
    /\ BoundP(src)
    /\ NewP(dst, ObjP(src))
    /\ UNCHANGED <<refI, heapI>>

\* p.intrinsic = n: the value of n's object is assigned to the member.
PyWriteIntrinsic(p, n) ==
    /\ Step(Call("intrinsic", p, NoArgs, 0, Identity3, n))
    /\ BoundP(p)
    /\ BoundI(n)
    /\ heapP' = [heapP EXCEPT ![refP[p]] = SetIntrinsic(@, ObjI(n))]
    /\ UNCHANGED <<refI, heapI, refP>>

\* p.extrinsic = e
PyWriteExtrinsic(p, e) ==
    /\ Step(Call("extrinsic", p, NoArgs, 0, e, ""))
    /\ BoundP(p)
    /\ heapP' = [heapP EXCEPT ![refP[p]] = SetExtrinsic(@, e)]
    /\ UNCHANGED <<refI, heapI, refP>>

\* p.intrinsic.width = w: the getter hands out a reference to the member.
PyWriteIntrinsicWidth(p, w) ==
    /\ Step(Call("intrinsic.width", p, NoArgs, w, Identity3, ""))
    /\ BoundP(p)
    /\ heapP' = [heapP EXCEPT ![refP[p]] = SetIntrinsic(@, SetWidth(Intrinsic(@), w))]
    /\ UNCHANGED <<refI, heapI, refP>>

Next ==
    \/ \E n \in NameI : PyDefault(n)
    \/ \E n \in NameI, t \in ArgTuples : PyInit6(n, t)
    \/ \E n \in NameI, e \in PinholeCameraIntrinsicParameters : PyInitParam(n, e)
    \/ \E dst \in NameI, src \in NameI : PyCopy(dst, src)
    \/ \E n \in NameI, t \in ArgTuples : PySetIntrinsics(n, t)
    \/ \E n \in NameI, w \in ExtentInputs : PyWriteWidth(n, w)
    \/ \E n \in NameI, h \in ExtentInputs : PyWriteHeight(n, h)
    \/ \E n \in NameI :
           /\ BoundI(n)
           /\ \E m \in MatrixInputs(IntrinsicMatrix(ObjI(n))) :
                  PyWriteIntrinsicMatrix(n, m)
    \/ \E p \in NameP : PyDefaultParameters(p)
    \/ \E dst \in NameP, src \in NameP : PyCopyParameters(dst, src)
    \/ \E p \in NameP, n \in NameI : PyWriteIntrinsic(p, n)
    \/ \E p \in NameP, e \in ExtrinsicInputs : PyWriteExtrinsic(p, e)
    \/ \E p \in NameP, w \in ExtentInputs : PyWriteIntrinsicWidth(p, w)

Spec == Init /\ [][Next]_vars

(***************************************************************************)
(* What the properties speak of.                                           *)
(***************************************************************************)
\* Every PinholeCameraIntrinsic instance of the session: the objects the
\* names hold and the members of the PinholeCameraParameters objects.
AllIntrinsics ==
    {ObjI(n) : n \in DOMAIN refI} \cup {Intrinsic(ObjP(p)) : p \in DOMAIN refP}

\* The canonical shape: row 2 is (0, 0, 1), entries (1,0), (2,0), (2,1) are 0.
CanonicalShape(m) ==
    /\ m[2][0] = 0 /\ m[2][1] = 0 /\ m[2][2] = Real(1, 0)
    /\ m[1][0] = 0

\* The 3x3 matrix with the rows r0, r1, r2.
Matrix3(r0, r1, r2) ==
    [r \in Idx3 |-> [c \in Idx3 |->
        (IF r = 0 THEN r0 ELSE IF r = 1 THEN r1 ELSE r2)[c + 1]]]

(***************************************************************************)
(* C1.  As stated: after any sequence of constructors, set_intrinsics and  *)
(* direct writes of width, height and intrinsic_matrix, every              *)
(* PinholeCameraIntrinsic a name holds has a matrix of the canonical       *)
(* shape.                                                                  *)
(***************************************************************************)
C1_CanonicalShapeAlways ==
    \A n \in DOMAIN refI : CanonicalShape(IntrinsicMatrix(ObjI(n)))

(***************************************************************************)
(* C1, amended.  A matrix that is not of the canonical shape comes only    *)
(* from a direct write of intrinsic_matrix, which stores the matrix it is  *)
(* given, or from copying an instance whose matrix is not canonical, or it *)
(* was there before the call and the call left the matrix alone.  So the   *)
(* constructors and set_intrinsics establish the shape, and the writes of  *)
(* width and height and the copies keep it.                                *)
(***************************************************************************)
C1_CanonicalUnlessMatrixWritten ==
    [][\A n \in NameI :
          (n \in DOMAIN refI' /\ ~CanonicalShape(IntrinsicMatrix(ObjI(n)'))) =>
              \/ /\ BoundI(n)
                 /\ \E m \in MatrixInputs(IntrinsicMatrix(ObjI(n))) :
                        /\ PyWriteIntrinsicMatrix(n, m)
                        /\ IntrinsicMatrix(ObjI(n)') = m
              \/ \E src \in NameI :
                     /\ PyCopy(n, src)
                     /\ ~CanonicalShape(IntrinsicMatrix(ObjI(src)))
              \/ /\ BoundI(n)
                 /\ ~CanonicalShape(IntrinsicMatrix(ObjI(n)))
                 /\ IntrinsicMatrix(ObjI(n)') = IntrinsicMatrix(ObjI(n))
      ]_vars

\* set_intrinsics has been called on an instance whose matrix had been
\* overwritten with the malformed one, and the shape is canonical again.
C1_Witness ==
    /\ Len(calls) = 3
    /\ calls[2].op = "intrinsic_matrix" /\ calls[2].matrix = MalformedMatrix
    /\ calls[3].op = "set_intrinsics" /\ calls[3].on = calls[2].on
    /\ CanonicalShape(IntrinsicMatrix(ObjI(calls[3].on)))

(***************************************************************************)
(* C2.  In every reachable state, for every instance (one a name holds or  *)
(* the member of a PinholeCameraParameters), is_valid() is true exactly    *)
(* when the width and height properties are both > 0; two instances with   *)
(* the same width and height have the same is_valid(), whatever their      *)
(* matrices.                                                               *)
(***************************************************************************)
C2_IsValidIffPositiveExtent ==
    /\ [](/\ \A c \in AllIntrinsics :
                IsValid(c) <=> (Width(c) > 0 /\ Height(c) > 0)
          /\ \A c, d \in AllIntrinsics :
                (Width(c) = Width(d) /\ Height(c) = Height(d)) =>
                    (IsValid(c) <=> IsValid(d)))
    /\ [][\A n \in NameI :
             /\ \A t \in ArgTuples :
                    (PyInit6(n, t) \/ PySetIntrinsics(n, t)) =>
                        (IsValid(ObjI(n)') <=> (t.w > 0 /\ t.h > 0))
             /\ \A w \in ExtentInputs :
                    PyWriteWidth(n, w) =>
                        (IsValid(ObjI(n)') <=> (w > 0 /\ Height(ObjI(n)) > 0))
             /\ \A h \in ExtentInputs :
                    PyWriteHeight(n, h) =>
                        (IsValid(ObjI(n)') <=> (Width(ObjI(n)) > 0 /\ h > 0))
             /\ BoundI(n) =>
                    \A m \in MatrixInputs(IntrinsicMatrix(ObjI(n))) :
                        PyWriteIntrinsicMatrix(n, m) =>
                            (IsValid(ObjI(n)') <=> IsValid(ObjI(n)))
         ]_vars

\* An instance with a malformed matrix that is valid, beside one that is
\* not valid because only its height is not positive.
C2_Witness ==
    /\ \E c \in AllIntrinsics :
           IsValid(c) /\ IntrinsicMatrix(c) = MalformedMatrix
    /\ \E c \in AllIntrinsics :
           ~IsValid(c) /\ Width(c) > 0 /\ Height(c) <= 0

(***************************************************************************)
(* C3.  set_intrinsics(w, h, fx, fy, cx, cy), called on an instance in any *)
(* state, leaves it with the fields the 6-argument constructor gives a new *)
(* instance for the same arguments: width, height and the nine entries of  *)
(* the matrix, with skew 0.                                                *)
(***************************************************************************)
C3_SetIntrinsicsAsConstructor ==
    [][\A n \in NameI, t \in ArgTuples :
          PySetIntrinsics(n, t) =>
              /\ ObjI(n)' = Init6(t.w, t.h, t.fx, t.fy, t.cx, t.cy)
              /\ GetSkew(ObjI(n)') = 0
      ]_vars

\* set_intrinsics was called on an instance whose matrix had been
\* overwritten with the malformed one, and the instance now equals a newly
\* constructed one.
C3_Witness ==
    /\ Len(calls) = 3
    /\ calls[2].op = "intrinsic_matrix" /\ calls[2].matrix = MalformedMatrix
    /\ calls[3].op = "set_intrinsics" /\ calls[3].on = calls[2].on
    /\ calls[3].args.w = -1
    /\ ObjI(calls[3].on) =
           [width_ |-> -1, height_ |-> MaxW,
            intrinsic_matrix_ |->
                Matrix3(<<Real(1, 0), 0, Real(3, 0)>>,
                        <<0, Real(2, 0), Real(4, 0)>>,
                        <<0, 0, Real(1, 0)>>)]

(***************************************************************************)
(* C4.  An instance newly built by the 6-argument constructor, for any     *)
(* arguments (non-positive ones too), or from a preset member, has a       *)
(* matrix with row 2 = (0, 0, 1), entries (1,0), (2,0), (2,1) = 0, skew    *)
(* (0,1) = 0, and (0,0) = fx, (1,1) = fy, (0,2) = cx, (1,2) = cy, which    *)
(* for a preset are the values of the catalog.                             *)
(***************************************************************************)
BuiltFrom(c, fx, fy, cx, cy) ==
    /\ CanonicalShape(IntrinsicMatrix(c))
    /\ IntrinsicMatrix(c)[0][1] = 0
    /\ IntrinsicMatrix(c)[0][0] = fx /\ IntrinsicMatrix(c)[1][1] = fy
    /\ IntrinsicMatrix(c)[0][2] = cx /\ IntrinsicMatrix(c)[1][2] = cy

C4_ConstructedIsCanonical ==
    [][\A n \in NameI :
          /\ \A t \in ArgTuples :
                 PyInit6(n, t) => BuiltFrom(ObjI(n)', t.fx, t.fy, t.cx, t.cy)
          /\ \A e \in PinholeCameraIntrinsicParameters :
                 PyInitParam(n, e) =>
                     BuiltFrom(ObjI(n)', PresetTable[e].fx, PresetTable[e].fy,
                               PresetTable[e].cx, PresetTable[e].cy)
      ]_vars

\* The constructor was called with a zero height and non-positive reals,
\* beside an instance built from the Kinect2 depth preset.
C4_Witness ==
    /\ Len(calls) = 2
    /\ calls[1].op = "PinholeCameraIntrinsic(param)"
    /\ calls[1].name = "Kinect2DepthCameraDefault"
    /\ calls[2].op = "PinholeCameraIntrinsic(6)" /\ calls[2].on # calls[1].on
    /\ calls[2].args.h = 0
    /\ IntrinsicMatrix(ObjI(calls[2].on)) =
           Matrix3(<<0, 0, -Real(2, 0)>>,
                   <<0, -Real(1, 5000), Real(0, 5000)>>,
                   <<0, 0, Real(1, 0)>>)
    /\ IntrinsicMatrix(ObjI(calls[1].on)) =
           Matrix3(<<Real(254, 8780), 0, Real(365, 4560)>>,
                   <<0, Real(205, 3950), Real(365, 4560)>>,
                   <<0, 0, Real(1, 0)>>)

(***************************************************************************)
(* C6.  In every reachable state, for every instance, with M the value of  *)
(* its intrinsic_matrix property: get_focal_length() = (M[0,0], M[1,1]),   *)
(* get_principal_point() = (M[0,2], M[1,2]) and get_skew() = M[0,1]; and a *)
(* direct write of the matrix is what the accessors then return.           *)
(***************************************************************************)
AccessorsRead(c, m) ==
    /\ GetFocalLength(c) = <<m[0][0], m[1][1]>>
    /\ GetPrincipalPoint(c) = <<m[0][2], m[1][2]>>
    /\ GetSkew(c) = m[0][1]

C6_AccessorConsistency ==
    /\ [](\A c \in AllIntrinsics : AccessorsRead(c, IntrinsicMatrix(c)))
    /\ [][\A n \in NameI :
             BoundI(n) =>
                 \A m \in MatrixInputs(IntrinsicMatrix(ObjI(n))) :
                     PyWriteIntrinsicMatrix(n, m) => AccessorsRead(ObjI(n)', m)
         ]_vars

\* Scenario S4: built from PrimeSenseDefault, then intrinsic_matrix[0,1]
\* := 0.25; get_skew() is 0.25 and the instance is still valid.
C6_Witness ==
    /\ Len(calls) = 2
    /\ calls[1].op = "PinholeCameraIntrinsic(param)"
    /\ calls[1].name = "PrimeSenseDefault"
    /\ calls[2].op = "intrinsic_matrix" /\ calls[2].on = calls[1].on
    /\ calls[2].matrix =
           Matrix3(<<Real(525, 0), Real(0, 2500), Real(319, 5000)>>,
                   <<0, Real(525, 0), Real(239, 5000)>>,
                   <<0, 0, Real(1, 0)>>)
    /\ GetSkew(ObjI(calls[2].on)) = Real(0, 2500)
    /\ GetFocalLength(ObjI(calls[2].on)) = <<Real(525, 0), Real(525, 0)>>
    /\ GetPrincipalPoint(ObjI(calls[2].on)) = <<Real(319, 5000), Real(239, 5000)>>
    /\ IsValid(ObjI(calls[2].on))

(***************************************************************************)
(* C7.  Building an instance from a preset member gives the fields the     *)
(* 6-argument constructor gives for the six values of that member in the   *)
(* catalog; so two instances built from the same member are equal field    *)
(* for field.                                                              *)
(***************************************************************************)
OfCatalog(e) ==
    Init6(PresetTable[e].w, PresetTable[e].h, PresetTable[e].fx,
          PresetTable[e].fy, PresetTable[e].cx, PresetTable[e].cy)

C7_PresetAsConstructor ==
    /\ [][\A n \in NameI, e \in PinholeCameraIntrinsicParameters :
             PyInitParam(n, e) => ObjI(n)' = OfCatalog(e)
         ]_vars
    /\ []((/\ Len(calls) = 2
           /\ calls[1].op = "PinholeCameraIntrinsic(param)"
           /\ calls[2].op = "PinholeCameraIntrinsic(param)"
           /\ calls[1].name = calls[2].name
           /\ calls[1].on # calls[2].on) =>
              /\ Width(ObjI("a")) = Width(ObjI("b"))
              /\ Height(ObjI("a")) = Height(ObjI("b"))
              /\ IntrinsicMatrix(ObjI("a")) = IntrinsicMatrix(ObjI("b")))

\* Two names built from Kinect2ColorCameraDefault, with the catalog's
\* values.
C7_Witness ==
    /\ Len(calls) = 2
    /\ calls[1].op = "PinholeCameraIntrinsic(param)"
    /\ calls[2].op = "PinholeCameraIntrinsic(param)"
    /\ calls[1].name = "Kinect2ColorCameraDefault"
    /\ calls[2].name = "Kinect2ColorCameraDefault"
    /\ calls[1].on # calls[2].on
    /\ ObjI("a") = ObjI("b")
    /\ Width(ObjI("a")) = 1920 /\ Height(ObjI("a")) = 1080
    /\ GetFocalLength(ObjI("a")) = <<Real(1059, 9413), Real(1059, 9413)>>
    /\ GetPrincipalPoint(ObjI("a")) = <<Real(959, 5000), Real(539, 5000)>>

(***************************************************************************)
(* C5.  Copy independence.  Once b is a copy of a (and neither name has    *)
(* been bound again), a call that mutates b (a write of width, height or   *)
(* intrinsic_matrix, or set_intrinsics; for PinholeCameraParameters a      *)
(* write of intrinsic, of extrinsic or of a field of the member intrinsic) *)
(* leaves every field of a as it was; and the same with a and b exchanged. *)
(***************************************************************************)
BindingOps ==
    {"PinholeCameraIntrinsic()", "PinholeCameraIntrinsic(6)",
     "PinholeCameraIntrinsic(param)", "PinholeCameraParameters()", "copy"}

\* One of a, b was made as a copy of the other, and both names still hold
\* the objects they held then.
CopyPair(a, b) ==
    \E i \in 1 .. Len(calls) :
        /\ calls[i].op = "copy"
        /\ \/ calls[i].on = b /\ calls[i].name = a
           \/ calls[i].on = a /\ calls[i].name = b
        /\ \A j \in (i + 1) .. Len(calls) :
               ~(calls[j].on \in {a, b} /\ calls[j].op \in BindingOps)

MutatesI(n) ==
    \/ \E t \in ArgTuples : PySetIntrinsics(n, t)
    \/ \E w \in ExtentInputs : PyWriteWidth(n, w) \/ PyWriteHeight(n, w)
    \/ /\ BoundI(n)
       /\ \E m \in MatrixInputs(IntrinsicMatrix(ObjI(n))) :
              PyWriteIntrinsicMatrix(n, m)

MutatesP(p) ==
    \/ \E n \in NameI : PyWriteIntrinsic(p, n)
    \/ \E e \in ExtrinsicInputs : PyWriteExtrinsic(p, e)
    \/ \E w \in ExtentInputs : PyWriteIntrinsicWidth(p, w)

C5_CopyIndependence ==
    [][/\ \A a, b \in NameI :
              (a # b /\ CopyPair(a, b) /\ MutatesI(b)) =>
                  /\ Width(ObjI(a)') = Width(ObjI(a))
                  /\ Height(ObjI(a)') = Height(ObjI(a))
                  /\ IntrinsicMatrix(ObjI(a)') = IntrinsicMatrix(ObjI(a))
       /\ \A p, q \in NameP :
              (p # q /\ CopyPair(p, q) /\ MutatesP(q)) =>
                  /\ Intrinsic(ObjP(p)') = Intrinsic(ObjP(p))
                  /\ Extrinsic(ObjP(p)') = Extrinsic(ObjP(p))
      ]_vars

\* Scenario S6: p1 built from Kinect2ColorCameraDefault, p2 := copy(p1),
\* p2.width := 0; p1.width is 1920 and p1 is valid.
C5_Witness ==
    /\ Len(calls) = 3
    /\ calls[1].op = "PinholeCameraIntrinsic(param)" /\ calls[1].on = "a"
    /\ calls[1].name = "Kinect2ColorCameraDefault"
    /\ calls[2].op = "copy" /\ calls[2].on = "b" /\ calls[2].name = "a"
    /\ calls[3].op = "width" /\ calls[3].on = "b" /\ calls[3].value = 0
    /\ Width(ObjI("b")) = 0 /\ ~IsValid(ObjI("b"))
    /\ Width(ObjI("a")) = 1920 /\ IsValid(ObjI("a"))

(***************************************************************************)
(* C8.  Default construction gives the sentinel: a new                     *)
(* PinholeCameraIntrinsic() has width 0, height 0, the 3x3 identity as     *)
(* matrix and is not valid; a new PinholeCameraParameters() has the 4x4    *)
(* identity as extrinsic and an intrinsic equal to that sentinel.          *)
(***************************************************************************)
IsSentinel(c) ==
    /\ Width(c) = 0 /\ Height(c) = 0
    /\ IntrinsicMatrix(c) =
           Matrix3(<<Real(1, 0), 0, 0>>, <<0, Real(1, 0), 0>>, <<0, 0, Real(1, 0)>>)
    /\ ~IsValid(c)

C8_DefaultIsSentinel ==
    [][/\ \A n \in NameI : PyDefault(n) => IsSentinel(ObjI(n)')
       /\ \A p \in NameP :
              PyDefaultParameters(p) =>
                  /\ DOMAIN Extrinsic(ObjP(p)') = Idx4
                  /\ \A r, c \in Idx4 :
                         Extrinsic(ObjP(p)')[r][c] = IF r = c THEN Real(1, 0) ELSE 0
                  /\ IsSentinel(Intrinsic(ObjP(p)'))
      ]_vars

\* Scenarios S2 and S5: a default PinholeCameraIntrinsic and a default
\* PinholeCameraParameters.
C8_Witness ==
    /\ Len(calls) = 2
    /\ calls[1].op = "PinholeCameraIntrinsic()"
    /\ calls[2].op = "PinholeCameraParameters()"
    /\ IsSentinel(ObjI(calls[1].on))
    /\ IsSentinel(Intrinsic(ObjP(calls[2].on)))
    /\ Extrinsic(ObjP(calls[2].on))[3][3] = Real(1, 0)
    /\ Extrinsic(ObjP(calls[2].on))[0][3] = 0

(***************************************************************************)
(* C9.  The 6-argument constructor and set_intrinsics are total: they can  *)
(* be called with every argument tuple, zero and negative extents          *)
(* included; they store the extents they are given, the instance is not    *)
(* valid when an extent is not positive, and the accessors and the string  *)
(* representation of the instance give the stored values.                  *)
(***************************************************************************)
C9_Total ==
    /\ [](\A n \in NameI, t \in ArgTuples :
              Len(calls) < MaxOps =>
                  /\ ENABLED PyInit6(n, t)
                  /\ BoundI(n) => ENABLED PySetIntrinsics(n, t))
    /\ [][\A n \in NameI, t \in ArgTuples :
             (PyInit6(n, t) \/ PySetIntrinsics(n, t)) =>
                 /\ Width(ObjI(n)') = t.w /\ Height(ObjI(n)') = t.h
                 /\ (t.w <= 0 \/ t.h <= 0) => ~IsValid(ObjI(n)')
                 /\ GetFocalLength(ObjI(n)') = <<t.fx, t.fy>>
                 /\ GetPrincipalPoint(ObjI(n)') = <<t.cx, t.cy>>
                 /\ GetSkew(ObjI(n)') = 0
                 /\ Repr(ObjI(n)') =
                        <<"camera::PinholeCameraIntrinsic with width = ",
                          to_string(t.w), " and height = ", to_string(t.h),
                          ".\nAccess intrinsics with intrinsic_matrix.">>
         ]_vars

\* An instance constructed with the extents (0, -1) beside one set to
\* them: both are not valid, hold the extents and render them.
C9_Witness ==
    /\ Len(calls) = 3
    /\ calls[1].op = "PinholeCameraIntrinsic(6)" /\ calls[1].args.h = -1
    /\ calls[3].op = "set_intrinsics" /\ calls[3].args.h = -1
    /\ calls[3].on # calls[1].on
    /\ \A n \in NameI :
           /\ BoundI(n)
           /\ Width(ObjI(n)) = 0 /\ Height(ObjI(n)) = -1
           /\ ~IsValid(ObjI(n))
           /\ GetFocalLength(ObjI(n)) = <<Real(1, 0), Real(2, 0)>>
           /\ Repr(ObjI(n)) =
                  <<"camera::PinholeCameraIntrinsic with width = ", <<"0">>,
                    " and height = ", <<"-", "1">>,
                    ".\nAccess intrinsics with intrinsic_matrix.">>

(***************************************************************************)
(* C10.  Setter idempotence: a second set_intrinsics with the arguments of *)
(* the call just made on the same instance changes nothing; and from any   *)
(* state, the state after one set_intrinsics is the state a further        *)
(* set_intrinsics with the same arguments gives.                           *)
(***************************************************************************)
C10_SetIntrinsicsIdempotent ==
    [][\A n \in NameI, t \in ArgTuples :
          PySetIntrinsics(n, t) =>
              /\ (/\ Len(calls) > 0
                  /\ calls[Len(calls)].op = "set_intrinsics"
                  /\ calls[Len(calls)].on = n
                  /\ calls[Len(calls)].args = t) => ObjI(n)' = ObjI(n)
              /\ SetIntrinsics(ObjI(n)', t.w, t.h, t.fx, t.fy, t.cx, t.cy) = ObjI(n)'
      ]_vars

\* set_intrinsics called twice in a row with the same arguments on an
\* instance built from a preset.
C10_Witness ==
    /\ Len(calls) = 3
    /\ calls[1].op = "PinholeCameraIntrinsic(param)"
    /\ calls[2].op = "set_intrinsics" /\ calls[2].on = calls[1].on
    /\ calls[3].op = "set_intrinsics" /\ calls[3].on = calls[1].on
    /\ calls[3].args = calls[2].args
    /\ calls[3].args.w = MaxW
    /\ Width(ObjI(calls[3].on)) = MaxW /\ Height(ObjI(calls[3].on)) = 0
    /\ GetPrincipalPoint(ObjI(calls[3].on)) = <<-Real(2, 0), Real(0, 5000)>>

=============================================================================
